---- MODULE Spec2Model ----
(***************************************************************************)
(* A model of the SECOP II relay server (src/server.js): the date helpers, *)
(* the query builder and fetcher, the ChatGPT reply clean-up and parsing,  *)
(* and the three request handlers /raw, /filtered and /analyzed.           *)
(*                                                                         *)
(* Text is modelled as a sequence of one-character strings; the fixed      *)
(* filter clauses and the fixed literals around the date are single        *)
(* tokens of such a sequence, so that concatenation of text is \o.         *)
(* A Date is modelled by its local day number (days since 1970-01-01);     *)
(* the time of day never reaches getDay, getDate or setDate.               *)
(***************************************************************************)
EXTENDS Integers, Sequences, FiniteSets, Bags, TLC

VARIABLES
    now,          \* the local day that new Date() yields at this moment
    filtrosBase,  \* the contents of the module-level array filtrosBase
    reqs,         \* the bag of requests being served or just answered
    dateString,   \* argument of a direct call of isValidDateFormat
    validResult,  \* [done, val]: what that call returned
    previousDay,  \* [done, val]: what a direct call of getPreviousBusinessDay returned
    content,      \* message content of a chat reply given to the clean-up
    analysis      \* [done, val]: what analyseDataWithAI returned for it

vars == <<now, filtrosBase, reqs, dateString, validResult, previousDay,
          content, analysis>>

----------------------------------------------------------------------------
(* Bounds of the model *)

\* requests that may be in the server at the same time
MaxReqs == 2
\* midnights that may pass while the server runs
MaxTicks == 1
\* records in the longest upstream reply
MaxRecords == 1
\* days after 2023-12-01 on which getPreviousBusinessDay is called directly
SpanDays == 800
\* length of the longest generated JSON text given to the clean-up
MaxJsonLen == 3

----------------------------------------------------------------------------
(* Text *)

Digits == <<"0", "1", "2", "3", "4", "5", "6", "7", "8", "9">>

IsDigit(c) == \E i \in 1..10 : Digits[i] = c

DigitVal(c) == (CHOOSE i \in 1..10 : Digits[i] = c) - 1

\* the value of a text of digits
RECURSIVE NumVal(_)
NumVal(s) ==
    IF s = <<>> THEN 0
    ELSE 10 * NumVal(SubSeq(s, 1, Len(s) - 1)) + DigitVal(s[Len(s)])

\* String(n) for a natural number n
RECURSIVE ToStr(_)
ToStr(n) ==
    IF n < 10 THEN <<Digits[n + 1]>>
    ELSE ToStr(n \div 10) \o <<Digits[(n % 10) + 1]>>

\* s.padStart(2, '0')
PadStart2(s) == IF Len(s) < 2 THEN <<"0">> \o s ELSE s

\* white space as String.prototype.trim and JSON see it in the modelled alphabet
IsSpace(c) == c \in {" ", "\n"}

RECURSIVE TrimStart(_)
TrimStart(s) ==
    IF s # <<>> /\ IsSpace(Head(s)) THEN TrimStart(Tail(s)) ELSE s

RECURSIVE TrimEnd(_)
TrimEnd(s) ==
    IF s # <<>> /\ IsSpace(s[Len(s)]) THEN TrimEnd(SubSeq(s, 1, Len(s) - 1)) ELSE s

Trim(s) == TrimEnd(TrimStart(s))

\* array.join(sep) for an array of texts
RECURSIVE Join(_, _)
Join(parts, sep) ==
    IF parts = <<>> THEN <<>>
    ELSE IF Len(parts) = 1 THEN parts[1]
    ELSE parts[1] \o sep \o Join(Tail(parts), sep)

----------------------------------------------------------------------------
(* Calendar arithmetic behind Date *)

IsLeap(y) == (y % 4 = 0 /\ y % 100 # 0) \/ y % 400 = 0

DaysInMonth(y, m) ==
    IF m = 2 THEN (IF IsLeap(y) THEN 29 ELSE 28)
    ELSE IF m \in {4, 6, 9, 11} THEN 30 ELSE 31

\* leap years in 1..y
LeapsUpTo(y) == (y \div 4) - (y \div 100) + (y \div 400)

RECURSIVE DaysBeforeMonth(_, _)
DaysBeforeMonth(y, m) ==
    IF m <= 1 THEN 0 ELSE DaysBeforeMonth(y, m - 1) + DaysInMonth(y, m - 1)

\* MakeDay(y, m, dt): the day number of day dt of month m (1..12) of year y;
\* dt may lie outside the month and then counts on into the neighbours
MakeDay(y, m, dt) ==
    365 * (y - 1970) + (LeapsUpTo(y - 1) - LeapsUpTo(1969))
        + DaysBeforeMonth(y, m) + (dt - 1)

\* the year of day t >= 0: a year has 365 or 366 days
YearFromDay(t) ==
    CHOOSE y \in (1970 + (t \div 366))..(1970 + (t \div 365)) :
        MakeDay(y, 1, 1) <= t /\ t < MakeDay(y + 1, 1, 1)

\* the year, month (1..12) and day of the month of day t
Civil(t) ==
    LET y == YearFromDay(t)
        first == MakeDay(y, 1, 1)
        m == CHOOSE k \in 1..12 :
                 /\ first + DaysBeforeMonth(y, k) <= t
                 /\ t < first + DaysBeforeMonth(y, k) + DaysInMonth(y, k)
    IN  [year |-> y, month |-> m, date |-> t - (first + DaysBeforeMonth(y, m)) + 1]

\* Date.prototype.getFullYear / getMonth (0-based) / getDate / getDay
getFullYear(t) == Civil(t).year
getMonth(t) == Civil(t).month - 1
getDate(t) == Civil(t).date
getDay(t) == (t + 4) % 7       \* 1970-01-01 was a Thursday; 0 = Sunday

\* Date.prototype.setDate(dt) on the date t
setDate(t, dt) == MakeDay(getFullYear(t), getMonth(t) + 1, dt)

----------------------------------------------------------------------------
(* getPreviousBusinessDay, server.js 66-82 *)

\* lines 70-72 without line 72: Sunday is not told apart
DaysBackNoSunday(dayOfWeek) == IF dayOfWeek = 1 THEN 3 ELSE 1

\* lines 70-72: how many days to go back from a day of the week
DaysBack(dayOfWeek) ==
    IF dayOfWeek = 0 THEN 2
    ELSE IF dayOfWeek = 1 THEN 3
    ELSE 1

\* lines 74-75: the Date previousDay after setDate
PreviousDayOf(today) == setDate(today, getDate(today) - DaysBack(getDay(today)))

\* lines 77-81: yyyy-mm-dd, month and day padded to two digits
FormatDate(t) ==
    LET yyyy == getFullYear(t)
        mm == PadStart2(ToStr(getMonth(t) + 1))
        dd == PadStart2(ToStr(getDate(t)))
    IN  ToStr(yyyy) \o <<"-">> \o mm \o <<"-">> \o dd

getPreviousBusinessDay(today) == FormatDate(PreviousDayOf(today))

----------------------------------------------------------------------------
(* isValidDateFormat, server.js 89-95 *)

\* line 90: /^\d{4}-\d{2}-\d{2}$/ (no m flag: $ is the end of the text only)
RegexTest(s) ==
    /\ Len(s) = 10
    /\ \A i \in {1, 2, 3, 4, 6, 7, 9, 10} : IsDigit(s[i])
    /\ s[5] = "-"
    /\ s[8] = "-"

\* line 93-94: new Date(s) is a valid Date, for a text the regex accepted.
\* Node.js runs on V8, whose ISO date parser accepts a month 1..12 and a day
\* 1..31 whatever the month, and carries a surplus day into the next month.
DateIsNotNaN(s) ==
    LET month == NumVal(SubSeq(s, 6, 7))
        day   == NumVal(SubSeq(s, 9, 10))
    IN  month \in 1..12 /\ day \in 1..31

isValidDateFormat(s) ==
    IF ~RegexTest(s) THEN FALSE ELSE DateIsNotNaN(s)

----------------------------------------------------------------------------
(* Direct calls of the two date helpers *)

NotCalled == [done |-> FALSE, val |-> <<>>]

\* lines 14-19; the accent of Contratacion is left out of the third clause:
\* the model's texts are ASCII
FiltrosBaseInit ==
    << <<"adjudicado = 'No'">>,
       <<"precio_base > 500000000">>,
       <<"modalidad_de_contratacion != 'Contratacion directa'">>,
       <<"codigo_principal_de_categoria LIKE '%811015%'">> >>

TwoDigits(n) == PadStart2(ToStr(n))

\* texts in the 4-2-2 shape, with months and days in and out of range
ShapedDates ==
    { y \o <<"-">> \o TwoDigits(m) \o <<"-">> \o TwoDigits(d) :
        y \in { <<"2", "0", "2", "4">>, <<"2", "0", "2", "5">> },
        m \in 0..13, d \in 0..32 }

\* texts that miss the shape
MisshapenDates ==
    { <<>>,
      <<"2", "5", "-", "0", "4", "-", "1", "8">>,
      <<"b", "a", "d", "-", "d", "a", "t", "e">>,
      <<"2", "0", "2", "5", "-", "4", "-", "1", "8">>,
      <<"2", "0", "2", "5", "/", "0", "4", "/", "1", "8">>,
      <<"2", "0", "2", "5", "-", "0", "4", "-", "1", "8", "\n">>,
      <<" ", "2", "0", "2", "5", "-", "0", "4", "-", "1", "8">>,
      <<"2", "0", "2", "5", "-", "0", "4", "-", "1", "8", "T">>,
      <<"2", "0", "2", "5", "-", "0", "4", "-", "1", "x">> }

ValidatorInputs == ShapedDates \cup MisshapenDates

\* 2023-12-01 and the days after it
FirstDay == MakeDay(2023, 12, 1)
CallDays == FirstDay..(FirstDay + SpanDays)

InitValid ==
    /\ dateString \in ValidatorInputs
    /\ now = FirstDay
    /\ filtrosBase = FiltrosBaseInit
    /\ reqs = EmptyBag
    /\ validResult = NotCalled
    /\ previousDay = NotCalled
    /\ content = <<>>
    /\ analysis = NotCalled

CallIsValidDateFormat ==
    /\ ~validResult.done
    /\ validResult' = [done |-> TRUE, val |-> <<isValidDateFormat(dateString)>>]
    /\ UNCHANGED <<now, filtrosBase, reqs, dateString, previousDay, content, analysis>>

NextValid == CallIsValidDateFormat

SpecValid == InitValid /\ [][NextValid]_vars

InitPBD ==
    /\ now \in CallDays
    /\ filtrosBase = FiltrosBaseInit
    /\ reqs = EmptyBag
    /\ dateString = <<>>
    /\ validResult = NotCalled
    /\ previousDay = NotCalled
    /\ content = <<>>
    /\ analysis = NotCalled

CallGetPreviousBusinessDay ==
    /\ ~previousDay.done
    /\ previousDay' = [done |-> TRUE, val |-> getPreviousBusinessDay(now)]
    /\ UNCHANGED <<now, filtrosBase, reqs, dateString, validResult, content, analysis>>

NextPBD == CallGetPreviousBusinessDay

SpecPBD == InitPBD /\ [][NextPBD]_vars

----------------------------------------------------------------------------
(* What the date helpers are claimed to do *)

\* a text is a calendar date: 4-2-2 digits naming a day that exists
IsCalendarDate(s) ==
    /\ Len(s) = 10
    /\ \A i \in {1, 2, 3, 4, 6, 7, 9, 10} : IsDigit(s[i])
    /\ s[5] = "-" /\ s[8] = "-"
    /\ LET y == NumVal(SubSeq(s, 1, 4))
           m == NumVal(SubSeq(s, 6, 7))
           d == NumVal(SubSeq(s, 9, 10))
       IN  m \in 1..12 /\ d >= 1 /\ d <= DaysInMonth(y, m)

\* the day number a calendar-date text names
DayOfText(s) ==
    MakeDay(NumVal(SubSeq(s, 1, 4)), NumVal(SubSeq(s, 6, 7)), NumVal(SubSeq(s, 9, 10)))

\* C5: getPreviousBusinessDay returns the date 3 days before a Monday, 2 days
\* before a Sunday and 1 day before any other day; the date it returns is a
\* weekday, and a Friday when the current day is a Saturday, Sunday or Monday.
C5_PreviousBusinessDay ==
    previousDay.done =>
        LET r == previousDay.val
            k == IF getDay(now) = 1 THEN 3 ELSE IF getDay(now) = 0 THEN 2 ELSE 1
        IN  /\ IsCalendarDate(r)
            /\ DayOfText(r) = now - k
            /\ getDay(DayOfText(r)) \in 1..5
            /\ (getDay(now) \in {6, 0, 1} => getDay(DayOfText(r)) = 5)

\* a Monday that is the 1st or 2nd of a month: the arithmetic crosses a month
C5_Witness ==
    /\ previousDay.done
    /\ getDay(now) = 1
    /\ getDate(now) <= 2
    /\ getDay(DayOfText(previousDay.val)) = 5

\* C6: isValidDateFormat(s) is true exactly when s is 4-2-2 digits and names
\* a real calendar date (so false for 2025-13-01, 25-04-18 and 2025-02-30).
C6_ValidIffCalendarDate ==
    validResult.done => (validResult.val[1] <=> IsCalendarDate(dateString))

----------------------------------------------------------------------------
(* JSON.parse, on the part of JSON the modelled alphabet can spell: numbers, *)
(* strings without escapes, arrays and objects. The value of a text is      *)
(* represented by the text without its insignificant white space.           *)

ParseFail == [ok |-> FALSE, val |-> <<>>, rest |-> <<>>]

\* a string: a quote, characters other than quote, backslash and control
\* characters, a quote; t starts with the opening quote
RECURSIVE ParseStringBody(_, _)
ParseStringBody(t, acc) ==
    IF t = <<>> THEN ParseFail
    ELSE IF Head(t) = "\"" THEN [ok |-> TRUE, val |-> acc \o <<"\"">>, rest |-> Tail(t)]
    ELSE IF Head(t) \in {"\\", "\n"} THEN ParseFail
    ELSE ParseStringBody(Tail(t), Append(acc, Head(t)))

ParseString(t) ==
    IF t = <<>> \/ Head(t) # "\"" THEN ParseFail
    ELSE ParseStringBody(Tail(t), <<"\"">>)

\* a number: 0, or a non-zero digit followed by digits
RECURSIVE ParseDigits(_, _)
ParseDigits(t, acc) ==
    IF t # <<>> /\ IsDigit(Head(t)) THEN ParseDigits(Tail(t), Append(acc, Head(t)))
    ELSE [ok |-> TRUE, val |-> acc, rest |-> t]

ParseNumber(t) ==
    IF Head(t) = "0" THEN [ok |-> TRUE, val |-> <<"0">>, rest |-> Tail(t)]
    ELSE ParseDigits(Tail(t), <<Head(t)>>)

RECURSIVE ParseValue(_)
RECURSIVE ParseElements(_, _, _)
RECURSIVE ParseMembers(_, _, _)

ParseValue(s) ==
    LET t == TrimStart(s)
    IN  IF t = <<>> THEN ParseFail
        ELSE IF Head(t) = "\"" THEN ParseString(t)
        ELSE IF IsDigit(Head(t)) THEN ParseNumber(t)
        ELSE IF Head(t) = "[" THEN ParseElements(TrimStart(Tail(t)), <<"[">>, TRUE)
        ELSE IF Head(t) = "{" THEN ParseMembers(TrimStart(Tail(t)), <<"{">>, TRUE)
        ELSE ParseFail

\* the elements of an array and its closing bracket; first: before any element
ParseElements(t, acc, first) ==
    IF t = <<>> THEN ParseFail
    ELSE IF Head(t) = "]" /\ (first \/ acc[Len(acc)] # ",")
        THEN [ok |-> TRUE, val |-> Append(acc, "]"), rest |-> Tail(t)]
    ELSE IF first \/ acc[Len(acc)] = ","
        THEN LET v == ParseValue(t)
             IN  IF v.ok THEN ParseElements(TrimStart(v.rest), acc \o v.val, FALSE)
                 ELSE ParseFail
    ELSE IF Head(t) = "," THEN ParseElements(TrimStart(Tail(t)), Append(acc, ","), FALSE)
    ELSE ParseFail

\* the members of an object and its closing brace
ParseMembers(t, acc, first) ==
    IF t = <<>> THEN ParseFail
    ELSE IF Head(t) = "}" /\ (first \/ acc[Len(acc)] # ",")
        THEN [ok |-> TRUE, val |-> Append(acc, "}"), rest |-> Tail(t)]
    ELSE IF first \/ acc[Len(acc)] = ","
        THEN LET k == ParseString(t)
                 c == IF k.ok THEN TrimStart(k.rest) ELSE <<>>
                 v == IF c # <<>> /\ Head(c) = ":" THEN ParseValue(Tail(c)) ELSE ParseFail
             IN  IF v.ok
                 THEN ParseMembers(TrimStart(v.rest), acc \o k.val \o <<":">> \o v.val, FALSE)
                 ELSE ParseFail
    ELSE IF Head(t) = "," THEN ParseMembers(TrimStart(Tail(t)), Append(acc, ","), FALSE)
    ELSE ParseFail

\* JSON.parse(text): [ok, val]; ok is FALSE where JSON.parse throws
JSONParse(text) ==
    LET v == ParseValue(text)
    IN  IF v.ok /\ TrimStart(v.rest) = <<>> THEN [ok |-> TRUE, val |-> v.val]
        ELSE [ok |-> FALSE, val |-> <<>>]

----------------------------------------------------------------------------
(* analyseDataWithAI, server.js 135-196 *)

\* the backtick character (a token of its own: a TLA+ string cannot hold one)
Backtick == "<backtick>"

Fence == <<Backtick, Backtick, Backtick>>
FenceJson == Fence \o <<"j", "s", "o", "n">>

\* the least i at which pat occurs in s, or 0
IndexOf(s, pat) ==
    LET at == { i \in 1..(Len(s) - Len(pat) + 1) : SubSeq(s, i, i + Len(pat) - 1) = pat }
    IN  IF at = {} THEN 0 ELSE CHOOSE i \in at : \A j \in at : i <= j

\* line 179: the first replace, of the first fence tagged json and the
\* newline after it if there is one
ReplaceFenceJson(s) ==
    LET i == IndexOf(s, FenceJson)
        e == i + Len(FenceJson)
    IN  IF i = 0 THEN s
        ELSE IF e <= Len(s) /\ s[e] = "\n"
            THEN SubSeq(s, 1, i - 1) \o SubSeq(s, e + 1, Len(s))
        ELSE SubSeq(s, 1, i - 1) \o SubSeq(s, e, Len(s))

\* line 179: the second replace, of a fence at the very end of the text
ReplaceFenceEnd(s) ==
    IF Len(s) >= 3 /\ SubSeq(s, Len(s) - 2, Len(s)) = Fence
    THEN SubSeq(s, 1, Len(s) - 3)
    ELSE s

\* line 179
CleanResponse(c) == Trim(ReplaceFenceEnd(ReplaceFenceJson(c)))

\* the values analyseDataWithAI returns: an error marker, or the parsed reply
ErrorMarker(msg) ==
    [error |-> msg, hasRaw |-> FALSE, raw |-> <<>>, parsed |-> FALSE, value |-> <<>>]
ErrorMarkerRaw(msg, raw) ==
    [error |-> msg, hasRaw |-> TRUE, raw |-> raw, parsed |-> FALSE, value |-> <<>>]
Parsed(v) ==
    [error |-> "", hasRaw |-> FALSE, raw |-> <<>>, parsed |-> TRUE, value |-> v]

NoValidResponse == "No valid response received from ChatGPT"
NoValidJSON == "ChatGPT response doesn't contain valid JSON"
ErrorCommunicating == "Error communicating with ChatGPT"

\* what the chat API may do with a call: the call fails (kind "reject"), or
\* it is answered with a reply that has no message content (hasContent FALSE)
\* or has the text content
ChatRejects == [kind |-> "reject", hasContent |-> FALSE, content |-> <<>>]
ChatNoContent == [kind |-> "reply", hasContent |-> FALSE, content |-> <<>>]
ChatContent(c) == [kind |-> "reply", hasContent |-> TRUE, content |-> c]

\* the same without the inner try/catch and the check of the content, as in
\* part_000 lines 94-103: a missing reply becomes a fixed text, and a text
\* that does not parse is caught by the outer catch
AnalyseContentOuterCatch(o) ==
    LET p == JSONParse(CleanResponse(IF o.hasContent /\ o.content # <<>>
                                     THEN o.content ELSE <<"x">>))
    IN  IF p.ok THEN Parsed(p.val) ELSE ErrorMarker(ErrorCommunicating)

\* lines 174-190: the reply's content to the returned value
AnalyseContent(o) ==
    IF ~o.hasContent \/ o.content = <<>> THEN ErrorMarker(NoValidResponse)
    ELSE LET cleanResponse == CleanResponse(o.content)
             p == JSONParse(cleanResponse)
         IN  IF p.ok THEN Parsed(p.val)
             ELSE ErrorMarkerRaw(NoValidJSON, cleanResponse)

\* lines 170-195: the value returned for an outcome of the chat call
analyseDataWithAI(o) ==
    IF o.kind = "reject" THEN ErrorMarker(ErrorCommunicating)
    ELSE AnalyseContent(o)

----------------------------------------------------------------------------
(* Direct calls of the reply clean-up *)

SeqsUpTo(A, n) == UNION { [1..k -> A] : k \in 0..n }

JsonAlphabet == {"[", "]", "1", ",", " ", "\""}

\* JSON texts that hold a fence inside a string, or span an object
SpecialJson ==
    { <<"{", "\"", "a", "\"", ":", "1", "}">>,
      <<"\"">> \o FenceJson \o <<"\"">>,
      <<"[", "\"">> \o Fence \o <<"\"", ",", " ", "1", "]">> }

JsonTexts ==
    { s \in SeqsUpTo(JsonAlphabet, MaxJsonLen) : JSONParse(s).ok } \cup SpecialJson

\* the ways a reply may wrap a JSON text J
Wrappings == {"alone", "json-lines", "json-tight", "bare-lines", "padded"}

Wrap(w, J) ==
    CASE w = "alone"      -> J
      [] w = "json-lines" -> FenceJson \o <<"\n">> \o J \o <<"\n">> \o Fence
      [] w = "json-tight" -> FenceJson \o J \o Fence
      [] w = "bare-lines" -> Fence \o <<"\n">> \o J \o <<"\n">> \o Fence
      [] w = "padded"     -> <<" ">> \o FenceJson \o <<"\n">> \o J \o <<"\n">> \o Fence \o <<"\n">>

\* replies that are no JSON at all
NonJsonReplies ==
    { <<"x">>, <<" ">>, Fence, FenceJson, <<"[", "1">>, <<"1", ",">>,
      FenceJson \o <<"\n", "x", "\n">> \o Fence }

FenceInputs == { Wrap(w, J) : w \in Wrappings, J \in JsonTexts } \cup NonJsonReplies

InitFence ==
    /\ content \in FenceInputs
    /\ now = FirstDay
    /\ filtrosBase = FiltrosBaseInit
    /\ reqs = EmptyBag
    /\ dateString = <<>>
    /\ validResult = NotCalled
    /\ previousDay = NotCalled
    /\ analysis = NotCalled

CallAnalyseDataWithAI ==
    /\ ~analysis.done
    /\ analysis' = [done |-> TRUE, val |-> analyseDataWithAI(ChatContent(content))]
    /\ UNCHANGED <<now, filtrosBase, reqs, dateString, validResult, previousDay, content>>

NextFence == CallAnalyseDataWithAI

SpecFence == InitFence /\ [][NextFence]_vars

\* C7: a reply that is a JSON text J alone, or J between one leading fence
\* (with or without the tag json and a newline) and one trailing fence,
\* possibly surrounded by white space, is returned as the value of J.
C7_FencedJsonParsed ==
    analysis.done =>
        \A w \in Wrappings, J \in JsonTexts :
            content = Wrap(w, J) => analysis.val = Parsed(JSONParse(J).val)

----------------------------------------------------------------------------
(* Values of the server *)

camposReducidos ==
    << <<"id_del_proceso">>, <<"entidad">>, <<"departamento_entidad">>,
       <<"descripci_n_del_procedimiento">>, <<"fecha_de_publicacion_del">>,
       <<"estado_del_procedimiento">>, <<"adjudicado">>, <<"fecha_adjudicacion">>,
       <<"precio_base">>, <<"urlproceso">> >>

camposFiltrados ==
    << <<"id_del_proceso">>, <<"entidad">>, <<"departamento_entidad">>,
       <<"descripci_n_del_procedimiento">>, <<"estado_del_procedimiento">>,
       <<"adjudicado">>, <<"fecha_adjudicacion">>, <<"precio_base">>,
       <<"urlproceso">>, <<"unidad_de_duracion">>, <<"fase">>,
       <<"fecha_de_publicacion_del">>, <<"fecha_de_ultima_publicaci">>,
       <<"fecha_de_publicacion_fase">>, <<"fecha_de_publicacion_fase_1">>,
       <<"fecha_de_publicacion_fase_2">>, <<"fecha_de_publicacion_fase_3">>,
       <<"fecha_de_recepcion_de">>, <<"fecha_de_apertura_de_respuesta">>,
       <<"fecha_de_apertura_efectiva">> >>

\* req.query.fecha: undefined when the parameter is absent, else its text
FechaAbsent == [given |-> FALSE, text |-> <<>>]
FechaText(t) == [given |-> TRUE, text |-> t]

\* a value used as a condition: undefined and the empty text are falsy
Truthy(fecha) == fecha.given /\ fecha.text # <<>>

\* data of the fetch: null, or a list of records
NullData == [isNull |-> TRUE, list |-> <<>>]
ListData(l) == [isNull |-> FALSE, list |-> l]

\* what the open-data API may do with a request: fail (a transport error or
\* a status outside 2xx, which axios rejects), or answer with a body
UpstreamFails == [kind |-> "error", body |-> NullData]
UpstreamAnswers(b) == [kind |-> "ok", body |-> b]
NoUpstream == [kind |-> "none", body |-> NullData]

NoChat == [kind |-> "none", hasContent |-> FALSE, content |-> <<>>]
NoAnalysis == ErrorMarker("")
NoParams == [where |-> <<>>, select |-> <<>>]

\* responses
InvalidDateMessage == "Invalid date format. Use YYYY-MM-DD"
ProcessingErrorMessage == "Error processing data"

HtmlResponse ==
    [status |-> 200, shape |-> "html", error |-> "", date_used |-> <<>>,
     total |-> 0, data |-> NullData, ai_analysis |-> NoAnalysis]
ErrorResponse(status, msg) ==
    [status |-> status, shape |-> "error", error |-> msg, date_used |-> <<>>,
     total |-> 0, data |-> NullData, ai_analysis |-> NoAnalysis]
RecordsResponse(date, total, data) ==
    [status |-> 200, shape |-> "records", error |-> "", date_used |-> date,
     total |-> total, data |-> data, ai_analysis |-> NoAnalysis]
AnalysisResponse(date, total, ai) ==
    [status |-> 200, shape |-> "analysis", error |-> "", date_used |-> date,
     total |-> total, data |-> NullData, ai_analysis |-> ai]

----------------------------------------------------------------------------
(* getSECOPData, server.js 103-128 *)

\* line 105
TargetDate(fecha, today) ==
    IF Truthy(fecha) THEN fecha.text ELSE getPreviousBusinessDay(today)

\* lines 106 and 110: the date clause
DateClause(targetDate) ==
    <<"fecha_de_publicacion_del >= '">> \o targetDate \o <<"T00:00:00.000'">>

\* lines 109-110 without the copy: the clause is pushed onto filtrosBase itself
BuildFiltrosShared(base, clause) ==
    [filtros |-> Append(base, clause), base |-> Append(base, clause)]

\* lines 109-110: the local array filtros, and the module array afterwards
BuildFiltros(base, clause) == [filtros |-> Append(base, clause), base |-> base]

\* lines 113-119: $where and $select ($order, $limit and $offset are fixed)
QueryParams(filtros, campos) ==
    [where  |-> Join(filtros, <<" AND ">>),
     select |-> IF Len(campos) > 0 THEN Join(campos, <<",">>) ELSE <<"*">>]

\* lines 121-127 without the catch: a failure reaches the handler, which
\* has no data
FetchResultNoCatch(upstream) == upstream.body

\* lines 121-127: what the function returns once the request has settled
FetchResult(upstream) ==
    IF upstream.kind = "error" THEN ListData(<<>>) ELSE upstream.body

----------------------------------------------------------------------------
(* The handlers, server.js 205-377 *)

Routes == {"/", "/raw", "/filtered", "/analyzed"}

\* lines 308, 336, 364: the field list each route asks for
CamposOf(route) ==
    IF route = "/raw" THEN <<>>
    ELSE IF route = "/filtered" THEN camposFiltrados
    ELSE camposReducidos

\* lines 302, 330, 358
ValidationRejects(fecha) == Truthy(fecha) /\ ~isValidDateFormat(fecha.text)

\* lines 310, 338, 368
DateUsed(fecha, today) ==
    IF Truthy(fecha) THEN fecha.text ELSE getPreviousBusinessDay(today)

\* lines 309-313 with date_used always computed from the current day
RecordsOrErrorToday(fecha, datos, today) ==
    IF datos.isNull THEN ErrorResponse(500, ProcessingErrorMessage)
    ELSE RecordsResponse(getPreviousBusinessDay(today), Len(datos.list), datos)

\* lines 309-313 and 337-341 within try/catch 315-318 and 343-346: reading
\* datos.length of null throws, and the catch answers 500
RecordsOrError(fecha, datos, today) ==
    IF datos.isNull THEN ErrorResponse(500, ProcessingErrorMessage)
    ELSE RecordsResponse(DateUsed(fecha, today), Len(datos.list), datos)

\* lines 367-371 reading the length with optional chaining: nothing throws
AnalysisNoThrow(fecha, datos, evaluacion, today) ==
    AnalysisResponse(DateUsed(fecha, today), Len(datos.list), evaluacion)

\* lines 367-371 within try/catch 373-376
AnalysisOrError(fecha, datos, evaluacion, today) ==
    IF datos.isNull THEN ErrorResponse(500, ProcessingErrorMessage)
    ELSE AnalysisResponse(DateUsed(fecha, today), Len(datos.list), evaluacion)

\* a request in the server
Request(pc, route, fecha, params, upstream, datos, chat, evaluacion, responses) ==
    [pc |-> pc, route |-> route, fecha |-> fecha, params |-> params,
     upstream |-> upstream, datos |-> datos, chat |-> chat,
     evaluacion |-> evaluacion, responses |-> responses]

Requests == BagToSet(reqs)

Replace(e, f) == (reqs (-) SetToBag({e})) (+) SetToBag({f})

\* GET /, lines 205-291
Home ==
    /\ BagCardinality(reqs) < MaxReqs
    /\ reqs' = reqs (+) SetToBag({Request("done", "/", FechaAbsent, NoParams, NoUpstream,
                                          NullData, NoChat, NoAnalysis, <<HtmlResponse>>)})
    /\ UNCHANGED <<now, filtrosBase>>

\* a handler of /raw, /filtered or /analyzed up to its return or first await:
\* lines 299-306, then getSECOPData up to axios.get
Receive(route, fecha) ==
    /\ BagCardinality(reqs) < MaxReqs
    /\ IF ValidationRejects(fecha)
       THEN /\ reqs' = reqs (+) SetToBag({Request("done", route, fecha, NoParams,
                            NoUpstream, NullData, NoChat, NoAnalysis,
                            <<ErrorResponse(400, InvalidDateMessage)>>)})
            /\ UNCHANGED filtrosBase
       ELSE LET b == BuildFiltros(filtrosBase, DateClause(TargetDate(fecha, now)))
            IN  /\ reqs' = reqs (+) SetToBag({Request("fetching", route, fecha,
                                QueryParams(b.filtros, CamposOf(route)),
                                NoUpstream, NullData, NoChat, NoAnalysis, <<>>)})
                /\ filtrosBase' = b.base
    /\ UNCHANGED now

\* the open-data request of e settles: getSECOPData returns, and the handler
\* answers (/raw, /filtered) or calls analyseDataWithAI up to axios.post
FetchSettles(e, upstream) ==
    /\ e.pc = "fetching"
    /\ LET datos == FetchResult(upstream)
       IN  IF e.route = "/analyzed"
           THEN reqs' = Replace(e, [e EXCEPT !.pc = "analysing",
                                             !.upstream = upstream,
                                             !.datos = datos])
           ELSE reqs' = Replace(e, [e EXCEPT !.pc = "done",
                                             !.upstream = upstream,
                                             !.datos = datos,
                                             !.responses = Append(@,
                                                 RecordsOrError(e.fecha, datos, now))])
    /\ UNCHANGED <<now, filtrosBase>>

\* the chat request of e settles: analyseDataWithAI returns, and the handler
\* of /analyzed answers
ChatSettles(e, chat) ==
    /\ e.pc = "analysing"
    /\ LET evaluacion == analyseDataWithAI(chat)
       IN  reqs' = Replace(e, [e EXCEPT !.pc = "done",
                                        !.chat = chat,
                                        !.evaluacion = evaluacion,
                                        !.responses = Append(@,
                                            AnalysisOrError(e.fecha, e.datos, evaluacion, now))])
    /\ UNCHANGED <<now, filtrosBase>>

\* the client of an answered request goes away
Close(e) ==
    /\ e.pc = "done"
    /\ reqs' = reqs (-) SetToBag({e})
    /\ UNCHANGED <<now, filtrosBase>>

\* midnight passes
StartDay == MakeDay(2025, 3, 3)

Tick ==
    /\ now < StartDay + MaxTicks
    /\ now' = now + 1
    /\ UNCHANGED <<filtrosBase, reqs>>

----------------------------------------------------------------------------
(* The server and its environment *)

ValidFecha == <<"2", "0", "2", "5", "-", "0", "4", "-", "1", "8">>
BadFecha == <<"b", "a", "d", "-", "d", "a", "t", "e">>

FechaParams == {FechaAbsent, FechaText(<<>>), FechaText(ValidFecha), FechaText(BadFecha)}

Records(n) == [i \in 1..n |-> i]

UpstreamOutcomes ==
    {UpstreamFails, UpstreamAnswers(NullData)}
        \cup { UpstreamAnswers(ListData(Records(n))) : n \in 0..MaxRecords }

FencedReply ==
    FenceJson \o <<"\n", "{", "\"", "a", "\"", ":", "1", "}", "\n">> \o Fence
GarbledReply == FenceJson \o <<"\n", "x", " ">>

ChatOutcomes ==
    {ChatRejects, ChatNoContent, ChatContent(FencedReply), ChatContent(GarbledReply)}

Init ==
    /\ now = StartDay
    /\ filtrosBase = FiltrosBaseInit
    /\ reqs = EmptyBag
    /\ dateString = <<>>
    /\ validResult = NotCalled
    /\ previousDay = NotCalled
    /\ content = <<>>
    /\ analysis = NotCalled

pure == <<dateString, validResult, previousDay, content, analysis>>

\* One request at a time, with every outcome of the two outbound calls.
Next ==
    \/ reqs = EmptyBag /\ Home /\ UNCHANGED pure
    \/ \E route \in Routes \ {"/"}, fecha \in FechaParams :
           reqs = EmptyBag /\ Receive(route, fecha) /\ UNCHANGED pure
    \/ \E e \in Requests, u \in UpstreamOutcomes : FetchSettles(e, u) /\ UNCHANGED pure
    \/ \E e \in Requests, c \in ChatOutcomes : ChatSettles(e, c) /\ UNCHANGED pure
    \/ \E e \in Requests : Close(e) /\ UNCHANGED pure
    \/ Tick /\ UNCHANGED pure

Spec == Init /\ [][Next]_vars

\* Up to MaxReqs requests in the server at once, their steps interleaved;
\* the outbound calls are answered with an empty list and an empty reply.
NextInterleaved ==
    \/ Home /\ UNCHANGED pure
    \/ \E route \in Routes \ {"/"}, fecha \in FechaParams :
           Receive(route, fecha) /\ UNCHANGED pure
    \/ \E e \in Requests : FetchSettles(e, UpstreamAnswers(ListData(<<>>))) /\ UNCHANGED pure
    \/ \E e \in Requests : ChatSettles(e, ChatNoContent) /\ UNCHANGED pure
    \/ \E e \in Requests : Close(e) /\ UNCHANGED pure
    \/ Tick /\ UNCHANGED pure

SpecInterleaved == Init /\ [][NextInterleaved]_vars

----------------------------------------------------------------------------
(* What the handlers are claimed to do *)

Answered == { e \in Requests : e.pc = "done" }
DataRoutes == {"/raw", "/filtered", "/analyzed"}

\* the response of an answered request
ResponseOf(e) == e.responses[1]

\* the request issued a fetch / a chat call
Fetched(e) == e.params # NoParams
Chatted(e) == e.pc = "analysing" \/ e.chat.kind # "none"

\* C1: a request to /raw, /filtered or /analyzed whose fecha is a text the
\* validator rejects is answered 400, and no fetch and no chat call is issued.
C1_InvalidDateRejected ==
    \A e \in Requests :
        (e.route \in DataRoutes /\ e.fecha.given /\ ~isValidDateFormat(e.fecha.text)) =>
            /\ e.pc = "done"
            /\ ResponseOf(e).status = 400
            /\ ~Fetched(e)
            /\ ~Chatted(e)

\* C2: when the open-data request of a validated /raw or /filtered request
\* fails, the fetcher returns the empty list and the answer is 200 with
\* data = [] and total_records = 0.
C2_FetchFailureIsEmpty200 ==
    \A e \in Answered :
        (e.route \in {"/raw", "/filtered"} /\ e.upstream.kind = "error") =>
            /\ e.datos = ListData(<<>>)
            /\ Len(e.responses) = 1
            /\ ResponseOf(e).status = 200
            /\ ResponseOf(e).shape = "records"
            /\ ResponseOf(e).data = ListData(<<>>)
            /\ ResponseOf(e).total = 0

C2_Witness ==
    \E e \in Answered :
        /\ e.route = "/filtered"
        /\ e.upstream.kind = "error"
        /\ ResponseOf(e).status = 200

\* the three ways an analysis fails
ChatFailed(e) == e.chat.kind = "reject"
ChatEmpty(e) == e.chat.kind = "reply" /\ (~e.chat.hasContent \/ e.chat.content = <<>>)
ChatUnparseable(e) ==
    /\ e.chat.kind = "reply" /\ e.chat.hasContent /\ e.chat.content # <<>>
    /\ ~JSONParse(CleanResponse(e.chat.content)).ok

MarkerOfFailure(e) ==
    /\ ChatFailed(e) => ResponseOf(e).ai_analysis = ErrorMarker(ErrorCommunicating)
    /\ ChatEmpty(e) => ResponseOf(e).ai_analysis = ErrorMarker(NoValidResponse)
    /\ ChatUnparseable(e) =>
           ResponseOf(e).ai_analysis =
               ErrorMarkerRaw(NoValidJSON, CleanResponse(e.chat.content))
    /\ Cardinality({ErrorCommunicating, NoValidResponse, NoValidJSON}) = 3

\* C3 as stated: every validated /analyzed request whose analysis fails in
\* one of the three ways is answered 200 with the marker of that failure.
C3_AnalysisFailureIs200 ==
    \A e \in Answered :
        (e.route = "/analyzed" /\ (ChatFailed(e) \/ ChatEmpty(e) \/ ChatUnparseable(e))) =>
            /\ ResponseOf(e).status = 200
            /\ ResponseOf(e).shape = "analysis"
            /\ MarkerOfFailure(e)

\* C3 amended: every validated /analyzed request whose fetched data is not
\* null and whose analysis fails in one of the three ways is answered 200
\* with the marker of that failure, the three markers differ, the marker of
\* an unparseable reply carries the cleaned text; and an /analyzed request
\* is answered with an error status only when its fetched data is null.
C3_AnalysisFailureIs200_NonNull ==
    \A e \in Answered :
        e.route = "/analyzed" /\ Fetched(e) =>
            /\ (ResponseOf(e).status # 200 => e.datos.isNull)
            /\ (~e.datos.isNull /\ (ChatFailed(e) \/ ChatEmpty(e) \/ ChatUnparseable(e))) =>
                   /\ ResponseOf(e).status = 200
                   /\ ResponseOf(e).shape = "analysis"
                   /\ MarkerOfFailure(e)

C3_Witness ==
    \E e \in Answered :
        /\ e.route = "/analyzed"
        /\ ~e.datos.isNull
        /\ ChatUnparseable(e)
        /\ ResponseOf(e).status = 200
        /\ ResponseOf(e).ai_analysis.hasRaw
        /\ ResponseOf(e).ai_analysis.raw # e.chat.content

\* C4 as stated: a /raw or /filtered request with a valid date d whose fetch
\* is answered gets 200 with date_used = d, data the reply, and total_records
\* the number of records.
C4_RecordsEnvelope ==
    \A e \in Answered :
        (/\ e.route \in {"/raw", "/filtered"}
         /\ e.fecha.given /\ IsCalendarDate(e.fecha.text)
         /\ e.upstream.kind = "ok") =>
            e.responses =
                <<RecordsResponse(e.fecha.text, Len(e.upstream.body.list), e.upstream.body)>>

\* C4 amended: the same, for a fetch answered with a list of records (a
\* body that is null is answered 500).
C4_RecordsEnvelope_List ==
    \A e \in Answered :
        (/\ e.route \in {"/raw", "/filtered"}
         /\ e.fecha.given /\ IsCalendarDate(e.fecha.text)
         /\ e.upstream.kind = "ok"
         /\ ~e.upstream.body.isNull) =>
            e.responses =
                <<RecordsResponse(e.fecha.text, Len(e.upstream.body.list), e.upstream.body)>>

C4_Witness ==
    \E e \in Answered :
        /\ e.route = "/raw"
        /\ e.fecha = FechaText(ValidFecha)
        /\ e.upstream.kind = "ok"
        /\ Len(e.upstream.body.list) = MaxRecords
        /\ ResponseOf(e).total = MaxRecords
        /\ ResponseOf(e).date_used = ValidFecha

\* C8: a validated request whose handler throws after the fetch (the body
\* of the reply is null) is answered once, with 500 and the generic message;
\* every answered request has exactly one response, of status 200, 400 or
\* 500, and no request in progress has any.
C8_OneResponse ==
    \A e \in Requests :
        /\ Len(e.responses) = (IF e.pc = "done" THEN 1 ELSE 0)
        /\ e.pc = "done" => ResponseOf(e).status \in {200, 400, 500}
        /\ (e.pc = "done" /\ Fetched(e) /\ e.datos.isNull) =>
               e.responses = <<ErrorResponse(500, ProcessingErrorMessage)>>
        /\ (e.pc = "done" /\ ResponseOf(e).status = 500) => (Fetched(e) /\ e.datos.isNull)

C8_Witness ==
    \E e \in Answered :
        /\ e.route = "/analyzed"
        /\ e.upstream = UpstreamAnswers(NullData)
        /\ e.chat.kind = "reply"
        /\ ResponseOf(e).status = 500

\* the $where text of a query for the date d
WhereFor(d) == Join(Append(FiltrosBaseInit, DateClause(d)), <<" AND ">>)

\* C9: the date_used of every 200 answer of a data route is the date in the
\* date clause of the query issued for that request.
C9_DateUsedIsQueryDate ==
    \A e \in Answered :
        (e.route \in DataRoutes /\ ResponseOf(e).status = 200) =>
            e.params.where = WhereFor(ResponseOf(e).date_used)

\* the $where texts for the dates getPreviousBusinessDay may have returned
\* since the server started
WhereOfPreviousDays == { WhereFor(getPreviousBusinessDay(t)) : t \in StartDay..now }

\* C10: filtrosBase always holds the four fixed clauses, and the $where of
\* every query is those four clauses and then one date clause with the date
\* resolved for its request (the fecha given, or else a previous business
\* day), joined with AND.
C10_BaseFiltersFixed ==
    /\ filtrosBase = FiltrosBaseInit
    /\ LET previous == WhereOfPreviousDays
       IN  \A e \in Requests :
               Fetched(e) =>
                   IF Truthy(e.fecha) THEN e.params.where = WhereFor(e.fecha.text)
                   ELSE e.params.where \in previous

\* two requests with different dates have their queries in flight together
C10_Witness ==
    \E e, f \in Requests :
        /\ e.pc = "fetching" /\ f.pc \in {"fetching", "analysing"}
        /\ Truthy(e.fecha) /\ ~Truthy(f.fecha)
        /\ e.params.where = WhereFor(ValidFecha)
        /\ f.params.where # e.params.where
        /\ now > StartDay

====
